---- MODULE Spec2Model ----
(***************************************************************************)
(* Model of the control-plane server of RedditTrend (execution/server.py). *)
(*                                                                         *)
(* The community registry is the TARGET_SUBREDDITS line of the .env file.  *)
(* The server is a ThreadingHTTPServer: every request runs on its own      *)
(* thread, and the threads share the .env file and the process environment *)
(* (os.environ).  A handler is therefore modelled as a sequence of steps,  *)
(* one per access to the file or to the environment; what a handler        *)
(* computes between two accesses is part of the step that follows the      *)
(* access.                                                                 *)
(*                                                                         *)
(* Text is modelled as sequences of one-character strings, a file as a     *)
(* sequence of lines, a line as a key and a value.                         *)
(***************************************************************************)
EXTENDS Integers, Sequences, FiniteSets, TLC

\* ------------------------------------------------------------------ bounds
\* Number of requests the server handles in one behaviour.
MaxRequests == 2

\* ------------------------------------------------------------------- text
WordChars == {"a", "A", "b"}

Space == " "

Comma == ","

\* str.lower() on one character.
LowerChar(c) == IF c = "A" THEN "a" ELSE c

\* str.lower()
Lower(s) == [i \in DOMAIN s |-> LowerChar(s[i])]

RECURSIVE LStrip(_)
LStrip(s) == IF s # <<>> /\ Head(s) = Space THEN LStrip(Tail(s)) ELSE s

RECURSIVE RStrip(_)
RStrip(s) == IF s # <<>> /\ s[Len(s)] = Space
             THEN RStrip(SubSeq(s, 1, Len(s) - 1))
             ELSE s

\* str.strip()
Strip(s) == RStrip(LStrip(s))

\* str.split(","): the pieces between the commas, empty pieces included.
RECURSIVE SplitComma(_)
SplitComma(s) ==
    IF \E i \in DOMAIN s : s[i] = Comma
    THEN LET i == CHOOSE k \in DOMAIN s :
                      s[k] = Comma /\ \A j \in 1..(k - 1) : s[j] # Comma
         IN  <<SubSeq(s, 1, i - 1)>> \o SplitComma(SubSeq(s, i + 1, Len(s)))
    ELSE <<s>>

\* ",".join(list)
RECURSIVE JoinComma(_)
JoinComma(list) ==
    IF list = <<>> THEN <<>>
    ELSE IF Len(list) = 1 THEN list[1]
    ELSE list[1] \o <<Comma>> \o JoinComma(Tail(list))

RECURSIVE StripAll(_)
StripAll(list) ==
    IF list = <<>> THEN <<>> ELSE <<Strip(Head(list))>> \o StripAll(Tail(list))

NonEmpty(s) == s # <<>>

\* [s.strip() for s in target.split(",") if s.strip()]
ParseList(target) == SelectSeq(StripAll(SplitComma(target)), NonEmpty)

\* --------------------------------------------------------------- the file
RegKey == "TARGET_SUBREDDITS"

RegLine(v) == [key |-> RegKey, val |-> v]

BlankLine == [key |-> "", val |-> <<>>]

\* The run parameters stored in .env next to the registry line.
EnvParams ==
    << [key |-> "FETCH_LIMIT", val |-> <<"9">>],
       [key |-> "TOP_N",       val |-> <<"5">>] >>

IsRegLine(l) == l.key = RegKey

\* re.search(r"(TARGET_SUBREDDITS=)(.*)", content)
HasRegLine(content) == \E i \in DOMAIN content : IsRegLine(content[i])

FirstRegIndex(content) ==
    CHOOSE i \in DOMAIN content :
        IsRegLine(content[i]) /\ \A j \in 1..(i - 1) : ~IsRegLine(content[j])

LastRegIndex(content) ==
    CHOOSE i \in DOMAIN content :
        IsRegLine(content[i])
        /\ \A j \in (i + 1)..Len(content) : ~IsRegLine(content[j])

\* re.sub(pattern, f"TARGET_SUBREDDITS={new_value}", content)
SubReg(content, new_value) ==
    [i \in DOMAIN content |->
        IF IsRegLine(content[i]) THEN RegLine(new_value) ELSE content[i]]

\* ------------------------------------------------------ the environment
Unset == [set |-> FALSE, val |-> <<>>]

EnvOf(v) == [set |-> TRUE, val |-> v]

\* load_dotenv(override=True): every key the file binds is written to
\* os.environ; a key the file does not bind keeps the value it has.
LoadDotenv(f, env) ==
    IF HasRegLine(f) THEN EnvOf(Strip(f[LastRegIndex(f)].val)) ELSE env

\* os.getenv("TARGET_SUBREDDITS", "")
Getenv(env) == IF env.set THEN env.val ELSE <<>>

\* The persisted registry: the list the registry line of the file holds.
Registry(f) == IF HasRegLine(f) THEN ParseList(Strip(f[LastRegIndex(f)].val))
               ELSE <<>>

\* Every line of the file but the registry line.
OtherLines(f) == SelectSeq(f, LAMBDA l : ~IsRegLine(l) /\ l # BlankLine)

\* ------------------------------------------- add_community, pure parts
IsWordNamePrefix(name) == name # <<>> /\ name[1] \in WordChars

\* re.match(r"^\w+$", name)
IsWordName(name) == name # <<>> /\ \A i \in DOMAIN name : name[i] \in WordChars

IsRegisteredExact(name_clean, communities) ==
    \E i \in DOMAIN communities : communities[i] = name_clean

\* name_clean.lower() in [c.lower() for c in communities]
IsRegistered(name_clean, communities) ==
    \E i \in DOMAIN communities : Lower(communities[i]) = Lower(name_clean)

AddNewValueFront(current_value, name_clean) ==
    IF current_value # <<>>
    THEN name_clean \o <<Comma>> \o current_value
    ELSE name_clean

\* f"{current_value},{name_clean}" if current_value else name_clean
AddNewValue(current_value, name_clean) ==
    IF current_value # <<>>
    THEN current_value \o <<Comma>> \o name_clean
    ELSE name_clean

\* The new text of the file add_community computes from the text it read.
AddContent(content, communities, name_clean) ==
    IF HasRegLine(content)
    THEN SubReg(content,
                AddNewValue(Strip(content[FirstRegIndex(content)].val),
                            name_clean))
    ELSE content \o
         <<BlankLine, RegLine(JoinComma(communities \o <<name_clean>>))>>

\* ---------------------------------------- remove_community, pure parts
MatchNameAny(communities, name_clean) ==
    IF communities # <<>> THEN <<communities[1]>> ELSE <<>>

\* The first entry equal to name_clean case-insensitively, as a sequence of
\* at most one element (<<>> is None).
MatchName(communities, name_clean) ==
    IF IsRegistered(name_clean, communities)
    THEN << communities[CHOOSE i \in DOMAIN communities :
               /\ Lower(communities[i]) = Lower(name_clean)
               /\ \A j \in 1..(i - 1) :
                      Lower(communities[j]) # Lower(name_clean)] >>
    ELSE <<>>

RemoveFilterExact(communities, name_clean) ==
    SelectSeq(communities, LAMBDA c : c # name_clean)

\* [c for c in communities if c.lower() != name_clean.lower()]
RemoveFilter(communities, name_clean) ==
    SelectSeq(communities, LAMBDA c : Lower(c) # Lower(name_clean))

\* The new text of the file remove_community computes from the text it read.
RemoveContent(content, communities, name_clean) ==
    SubReg(content, JoinComma(RemoveFilter(communities, name_clean)))

\* ------------------------------------------------------------ responses
Absent == "absent"

NoResp == [sent |-> FALSE, success |-> Absent, error |-> Absent,
           exists |-> FALSE, communities |-> <<>>]

\* {"error": ...}
ErrorResp(reason) ==
    [sent |-> TRUE, success |-> Absent, error |-> reason,
     exists |-> FALSE, communities |-> <<>>]

\* {"error": ..., "exists": True, "communities": communities}
ExistsResp(communities) ==
    [sent |-> TRUE, success |-> Absent, error |-> "already_registered",
     exists |-> TRUE, communities |-> communities]

\* {"error": ..., "communities": communities}
NotFoundResp(communities) ==
    [sent |-> TRUE, success |-> Absent, error |-> "not_registered",
     exists |-> FALSE, communities |-> communities]

\* {"success": True, "message": ..., "communities": updated}
SuccessResp(updated) ==
    [sent |-> TRUE, success |-> "true", error |-> Absent,
     exists |-> FALSE, communities |-> updated]

\* {"communities": get_communities()}
ListResp(communities) ==
    [sent |-> TRUE, success |-> Absent, error |-> Absent,
     exists |-> FALSE, communities |-> communities]

\* ---------------------------------------------------------------- state
Threads == {"t1", "t2"}

\* The names a request body can carry.
RawNames ==
    { <<"a">>, <<"A">>, <<"b">>, <<>>, <<Space, "a">>, <<"a", "-">> }

\* The request bodies: a JSON object with a name, or text that is not JSON.
NoBody == [json |-> FALSE, name |-> <<>>]

Bodies == [json : {TRUE}, name : RawNames] \cup {NoBody}

\* The registry lines the .env file can hold when the server starts.
InitialValues == { <<>>, <<"a">>, <<"A", Comma, "b">> }

InitialFiles ==
    {EnvParams} \cup {EnvParams \o <<RegLine(v)>> : v \in InitialValues}

VARIABLES
    file,      \* the text of the .env file
    environ,   \* os.environ["TARGET_SUBREDDITS"] of the server process
    th,        \* the request each handler thread is serving
    served,    \* number of requests accepted so far
    file0,     \* the .env file when the server started
    present,   \* env_path.exists()
    hv,        \* the harvest run (fetch_reddit_posts.py)
    rv,        \* the resolution of a post URL (fetch_reddit_post)
    pv         \* the stages of a pipeline run (do_POST, /api/run-pipeline)

vars == <<file, environ, th, served, file0, present, hv, rv, pv>>

\* The state outside the registry handlers.
others == <<hv, rv, pv>>

\* No harvest run, no URL resolution.
NoHarvest == [pc |-> "off"]

NoResolve == [pc |-> "off"]

NoPipeline == [pc |-> "off"]

IdleThread ==
    [pc |-> "idle", op |-> "none", raw |-> <<>>, name |-> <<>>,
     communities |-> <<>>, content |-> <<>>, tmp |-> <<>>,
     resp |-> NoResp, pre |-> <<>>, touched |-> FALSE, seq |-> 0, json |-> FALSE,
     targets |-> <<>>]

\* load_dotenv() at import binds the variable when the file has the line.
\* The server can also be started in a project that has no .env file.
Init ==
    /\ \/ present = TRUE  /\ file \in InitialFiles
       \/ present = FALSE /\ file = <<>>
    /\ environ = LoadDotenv(file, Unset)
    /\ th = [t \in Threads |-> IdleThread]
    /\ served = 0
    /\ file0 = file
    /\ hv = NoHarvest
    /\ rv = NoResolve
    /\ pv = NoPipeline

Free(t) == th[t].pc \in {"idle", "done"}

Quiescent == \A t \in Threads : Free(t)

\* The record of a request as a handler thread picks it up; pre and seq
\* remember the file and the rank of the request at that moment.
Accept(op, body) ==
    [IdleThread EXCEPT !.op = op, !.raw = body.name, !.json = body.json,
                       !.pre = file, !.seq = served + 1]

Respond(r, resp) == [r EXCEPT !.pc = "done", !.resp = resp]

\* ------------------------------------------------------------- requests
\* do_POST /api/add-community up to the call of add_community.
PostAddCommunity(t, body) ==
    /\ Free(t)
    /\ served < MaxRequests
    /\ served' = served + 1
    /\ LET r    == Accept("add", body)
           name == Strip(body.name)
       IN  th' = [th EXCEPT ![t] =
                 IF ~body.json THEN Respond(r, ErrorResp("invalid_json"))
                 ELSE IF name = <<>>
                      THEN Respond(r, ErrorResp("name_required"))
                 ELSE IF ~IsWordName(name)
                      THEN Respond(r, ErrorResp("invalid_name"))
                 ELSE [r EXCEPT !.pc = "add_load1", !.name = Strip(name)]]
    /\ UNCHANGED <<file, environ, file0, present>>
    /\ UNCHANGED others

\* do_POST /api/remove-community up to the call of remove_community.
PostRemoveCommunity(t, body) ==
    /\ Free(t)
    /\ served < MaxRequests
    /\ served' = served + 1
    /\ LET r    == Accept("remove", body)
           name == Strip(body.name)
       IN  th' = [th EXCEPT ![t] =
                 IF ~body.json THEN Respond(r, ErrorResp("invalid_json"))
                 ELSE IF name = <<>>
                      THEN Respond(r, ErrorResp("name_required"))
                 ELSE [r EXCEPT !.pc = "rm_load1", !.name = Strip(name)]]
    /\ UNCHANGED <<file, environ, file0, present>>
    /\ UNCHANGED others

\* do_GET /api/communities up to the call of get_communities.
GetCommunities(t) ==
    /\ Free(t)
    /\ served < MaxRequests
    /\ served' = served + 1
    /\ th' = [th EXCEPT ![t] = [Accept("list", NoBody) EXCEPT !.pc = "list_load"]]
    /\ UNCHANGED <<file, environ, file0, present>>
    /\ UNCHANGED others

\* os.getenv("TARGET_SUBREDDITS", "n8n,automation") of fetch_reddit_posts.py
DefaultTargets == <<"n8n", Comma, "automation">>

\* TARGET_SUBREDDITS as fetch_reddit_posts.py sees it when the server starts
\* it: the child inherits os.environ of the server, and its load_dotenv()
\* (no override) reads .env only for the variables the environment lacks.
FetchTargets(f, env) ==
    IF env.set THEN env.val
    ELSE IF HasRegLine(f) THEN Strip(f[LastRegIndex(f)].val)
    ELSE DefaultTargets

\* {"success": False, "error": ...}
FailedResp(reason) ==
    [sent |-> TRUE, success |-> "false", error |-> reason,
     exists |-> FALSE, communities |-> <<>>]

\* do_POST /api/run-pipeline: the three scripts run one after another;
\* targets is the list of communities the first one harvests.  A run with
\* no community ends with sys.exit(1); any script can fail.
PostRunPipeline(t, ok) ==
    /\ Free(t)
    /\ served < MaxRequests
    /\ served' = served + 1
    /\ LET r       == [Accept("run", NoBody) EXCEPT
                          !.targets = ParseList(FetchTargets(file, environ))]
       IN  th' = [th EXCEPT ![t] =
                 IF ok /\ r.targets # <<>>
                 THEN Respond(r, SuccessResp(<<>>))
                 ELSE Respond(r, FailedResp("pipeline_errors"))]
    /\ UNCHANGED <<file, environ, file0, present>>
    /\ UNCHANGED others

\* ---------------------------------------------------------------- steps
\* The program points that stand before a load_dotenv(override=True), and
\* the point each leads to.
AfterLoad ==
    [add_load1 |-> "add_env1", add_load2 |-> "add_env2",
     add_load3 |-> "add_env3", add_load4 |-> "add_load5",
     add_load5 |-> "add_env5",
     rm_load1  |-> "rm_env1",  rm_load2  |-> "rm_load3",
     rm_load3  |-> "rm_env3",
     list_load |-> "list_env"]

\* load_dotenv(override=True)
LoadDotenvStep(t) ==
    /\ th[t].pc \in DOMAIN AfterLoad
    /\ environ' = LoadDotenv(file, environ)
    /\ th' = [th EXCEPT ![t].pc = AfterLoad[th[t].pc], ![t].touched = TRUE]
    /\ UNCHANGED <<file, served, file0, present>>
    /\ UNCHANGED others

\* The rest of get_communities, os.getenv and the parsing of its value, and
\* what the caller does with the list up to its next access to the file or
\* to the environment (the env_path.exists() test included: no step of the
\* server deletes the file).
GetenvStep(t) ==
    LET r    == th[t]
        list == ParseList(Getenv(environ))
    IN  /\ r.pc \in {"add_env1", "add_env2", "add_env3", "add_env5",
                     "rm_env1", "rm_env3", "list_env"}
        /\ th' = [th EXCEPT ![t] =
              CASE r.pc = "add_env1" ->
                     IF IsRegistered(r.name, list)
                     THEN Respond(r, ExistsResp(list))
                     ELSE IF ~present
                          THEN Respond(r, ErrorResp("env_not_found"))
                     ELSE [r EXCEPT !.pc = "add_read", !.communities = list]
                [] r.pc = "add_env2" ->
                     [r EXCEPT !.pc = "add_setenv", !.tmp = list]
                [] r.pc = "add_env3" ->
                     IF ~IsRegistered(r.name, list)
                     THEN [r EXCEPT !.pc = "add_load4"]
                     ELSE Respond(r, SuccessResp(list))
                [] r.pc = "add_env5" -> Respond(r, SuccessResp(list))
                [] r.pc = "rm_env1" ->
                     IF MatchName(list, r.name) = <<>>
                     THEN Respond(r, NotFoundResp(list))
                     ELSE IF ~present
                          THEN Respond(r, ErrorResp("env_not_found"))
                     ELSE [r EXCEPT !.pc = "rm_read", !.communities = list]
                [] r.pc = "rm_env3" -> Respond(r, SuccessResp(list))
                [] r.pc = "list_env" -> Respond(r, ListResp(list))]
        /\ UNCHANGED <<file, environ, served, file0, present>>
        /\ UNCHANGED others

\* os.environ["TARGET_SUBREDDITS"] = ",".join(...)
SetenvStep(t) ==
    /\ th[t].pc = "add_setenv"
    /\ environ' = EnvOf(JoinComma(th[t].tmp))
    /\ th' = [th EXCEPT ![t].pc = "add_load3"]
    /\ UNCHANGED <<file, served, file0, present>>
    /\ UNCHANGED others

\* env_path.read_text(), and the computation of the new text.
ReadText(t) ==
    LET r == th[t]
    IN  /\ r.pc \in {"add_read", "rm_read"}
        /\ th' = [th EXCEPT ![t] =
              IF r.pc = "add_read"
              THEN [r EXCEPT !.pc = "add_open",
                             !.content = AddContent(file, r.communities, r.name)]
              ELSE [r EXCEPT !.pc = "rm_open",
                             !.content = RemoveContent(file, r.communities, r.name)]]
        /\ UNCHANGED <<file, environ, served, file0, present>>
        /\ UNCHANGED others

\* env_path.write_text(content), first half: open(mode="w") truncates.
OpenTruncate(t) ==
    /\ th[t].pc \in {"add_open", "rm_open"}
    /\ file' = <<>>
    /\ present' = TRUE
    /\ th' = [th EXCEPT ![t].pc =
                 IF th[t].pc = "add_open" THEN "add_write" ELSE "rm_write"]
    /\ UNCHANGED <<environ, served, file0>>
    /\ UNCHANGED others

\* env_path.write_text(content), second half: the text reaches the file.
WriteText(t) ==
    /\ th[t].pc \in {"add_write", "rm_write"}
    /\ file' = th[t].content
    /\ th' = [th EXCEPT ![t].pc =
                 IF th[t].pc = "add_write" THEN "add_load2" ELSE "rm_load2"]
    /\ UNCHANGED <<environ, served, file0, present>>
    /\ UNCHANGED others

Step(t) ==
    \/ LoadDotenvStep(t)
    \/ GetenvStep(t)
    \/ SetenvStep(t)
    \/ ReadText(t)
    \/ OpenTruncate(t)
    \/ WriteText(t)

Request(t) ==
    \/ \E body \in Bodies : PostAddCommunity(t, body)
    \/ \E body \in Bodies : PostRemoveCommunity(t, body)
    \/ GetCommunities(t)
    \/ \E ok \in BOOLEAN : PostRunPipeline(t, ok)

\* ThreadingHTTPServer: the handler threads run interleaved.
Next == \E t \in Threads : Request(t) \/ Step(t)

Spec == Init /\ [][Next]_vars

\* --------------------------------------------- requests one after another
\* A client that waits for each response before it sends the next request.
SeqRequest(t) == Quiescent /\ Request(t)

SeqNext == \E t \in Threads : SeqRequest(t) \/ Step(t)

SeqSpec == Init /\ [][SeqNext]_vars

\* ------------------------------------------- another process edits .env
\* The values another process can give the registry line.
ExternalValues == { <<>>, <<"b">> }

\* Between two requests another process rewrites the registry line or
\* deletes it; the other lines stay.
ExternalEdit ==
    /\ Quiescent
    /\ \/ \E v \in ExternalValues :
             /\ HasRegLine(file)
             /\ file' = SubReg(file, v)
       \/ /\ HasRegLine(file)
          /\ file' = SelectSeq(file, LAMBDA l : ~IsRegLine(l))
    /\ UNCHANGED <<environ, th, served, file0, present>>
    /\ UNCHANGED others

ExtNext == SeqNext \/ ExternalEdit

ExtSpec == Init /\ [][ExtNext]_vars

\* ================================================================ claims
\* The request thread t served is the latest one and has been answered.
Answered(t) == th[t].pc = "done" /\ th[t].seq = served

\* The request of thread t reached add_community / remove_community.
Called(t, op) == th[t].pc = "done" /\ th[t].op = op /\ th[t].name # <<>>

Alpha == <<"a">>

Beta == <<"b">>

\* C1: add("alpha") and add("beta"), run concurrently against an empty
\* registry, both return success and the registry they leave holds exactly
\* alpha and beta, under every interleaving of their steps.
C1_NoLostUpdate ==
    \A t, u \in Threads :
        ( /\ Registry(file0) = <<>>
          /\ served = 2
          /\ Called(t, "add") /\ th[t].name = Alpha
          /\ Called(u, "add") /\ th[u].name = Beta )
        => /\ th[t].resp.success = "true"
           /\ th[u].resp.success = "true"
           /\ Registry(file) \in {<<Alpha, Beta>>, <<Beta, Alpha>>}

\* C2: two concurrent mutations of different names leave the registry that
\* one of their two serial orders leaves; a successful add is not erased by
\* the other request and a successful remove is not undone by it.
C2_Serializable ==
    LET Has(reg, n) == \E i \in DOMAIN reg : Lower(reg[i]) = Lower(n)
        Without(reg, n) == SelectSeq(reg, LAMBDA c : Lower(c) # Lower(n))
        Apply(reg, r) ==
            IF r.op = "add"
            THEN IF Has(reg, r.name) THEN reg ELSE Append(reg, r.name)
            ELSE Without(reg, r.name)
    IN  \A t, u \in Threads :
            ( /\ t # u
              /\ served = 2
              /\ \E op \in {"add", "remove"} : Called(t, op)
              /\ \E op \in {"add", "remove"} : Called(u, op)
              /\ Lower(th[t].name) # Lower(th[u].name) )
            => /\ Registry(file) \in
                      { Apply(Apply(Registry(file0), th[t]), th[u]),
                        Apply(Apply(Registry(file0), th[u]), th[t]) }
               /\ (th[t].op = "add" /\ th[t].resp.success = "true")
                      => Has(Registry(file), th[t].name)
               /\ (th[t].op = "remove" /\ th[t].resp.success = "true")
                      => ~Has(Registry(file), th[t].name)

\* C3: the persisted registry never holds two entries that are equal
\* case-insensitively.
C3_CaseInsensitiveUnique ==
    LET reg == Registry(file)
    IN  \A i, j \in DOMAIN reg : i # j => Lower(reg[i]) # Lower(reg[j])

C6_AddAppends ==
    \A t \in Threads :
        ( /\ Answered(t) /\ Called(t, "add")
          /\ th[t].resp.success = "true" )
        => /\ Registry(file) = Append(Registry(th[t].pre), th[t].name)
           /\ \E i \in DOMAIN th[t].resp.communities :
                  th[t].resp.communities[i] = th[t].name

C6_Witness ==
    \E t \in Threads :
        /\ Answered(t) /\ Called(t, "add")
        /\ th[t].resp.success = "true"
        /\ Registry(th[t].pre) = <<<<"a">>>>
        /\ Registry(file) = <<<<"a">>, <<"b">>>>
        /\ th[t].resp.communities = <<<<"a">>, <<"b">>>>

\* C7: when a remove is answered with success the file already holds the
\* previous registry without the one entry that matches the name
\* case-insensitively, the other entries in their order and casing.
C7_RemoveDeletesMatch ==
    \A t \in Threads :
        ( /\ Answered(t) /\ Called(t, "remove")
          /\ th[t].resp.success = "true" )
        => LET old == Registry(th[t].pre)
           IN  \E k \in DOMAIN old :
                   /\ Lower(old[k]) = Lower(th[t].name)
                   /\ Registry(file) =
                          SubSeq(old, 1, k - 1) \o SubSeq(old, k + 1, Len(old))

C7_Witness ==
    \E t \in Threads :
        /\ Answered(t) /\ Called(t, "remove")
        /\ th[t].resp.success = "true"
        /\ th[t].name = <<"a">>
        /\ Registry(th[t].pre) = <<<<"A">>, <<"b">>>>
        /\ Registry(file) = <<<<"b">>>>

\* The outcome of an add the handler rejected for its name.
RejectedName(t) ==
    /\ th[t].resp.error \in {"name_required", "invalid_name"}
    /\ th[t].resp.success = Absent
    /\ ~th[t].touched
    /\ file = th[t].pre

C9_ListIsFresh ==
    \A t \in Threads :
        (Answered(t) /\ th[t].op = "list")
        => th[t].resp.communities = Registry(th[t].pre)

\* C10: once the add and remove requests have been answered, every line of
\* the file other than the registry line is as it was.
C10_OtherLinesKept ==
    Quiescent => OtherLines(file) = OtherLines(file0)

\* C11: while a mutation writes the file, and if it stops at any point of
\* the write, the persisted registry is the complete registry of before the
\* mutation or the complete registry of after it.
C11_CrashConsistent ==
    \A t \in Threads :
        ( /\ th[t].seq = served
          /\ th[t].op \in {"add", "remove"}
          /\ th[t].pc \in {"add_open", "add_write", "add_load2",
                           "rm_open", "rm_write", "rm_load2"} )
        => Registry(file) \in {Registry(th[t].pre), Registry(th[t].content)}

\* C12: a harvest run started through /api/run-pipeline harvests exactly the
\* communities of the registry line the file holds when the run starts.
C12_RunUsesPersistedRegistry ==
    \A t \in Threads :
        (Answered(t) /\ th[t].op = "run" /\ HasRegLine(th[t].pre))
        => th[t].targets = Registry(th[t].pre)

\* =========================================================================
\* The harvest run: fetch_reddit_posts.py
\* =========================================================================
\* ------------------------------------------------------------------ bounds
\* Largest number of posts the listing endpoint puts on one page.
MaxChildren == 2

\* Largest number of requests fetch_recent_posts sends for one community.
MaxPages == 3

\* Number of days the clock advances during one run.
MaxTicks == 1

\* ------------------------------------------------------- configuration
\* FETCH_LIMIT, TOP_N and PERIOD_DAYS are read from the environment; the run
\* is configured with FETCH_LIMIT=3 and TOP_N=2 and the default window.
FETCH_LIMIT == 3

TOP_N == 2

PERIOD_DAYS == 7

\* WEIGHT_SCORE, WEIGHT_COMMENTS and WEIGHT_RATIO, in hundredths.
W_SCORE == 100

W_COMMENTS == 200

W_RATIO == 5000

\* min(100, total_limit - fetched)
PageSize == 100

\* The day the run starts; times are counted in days.
StartDay == 9

\* ---------------------------------------------------------------- posts
\* The posts the listing endpoint can return.  id is the identity the
\* platform gives the post; upvote100 is upvote_ratio in hundredths.
PostPool ==
    { [id |-> 1, created_utc |-> 3, score |-> 2, num_comments |-> 0, upvote100 |-> 0],
      [id |-> 2, created_utc |-> 1, score |-> 0, num_comments |-> 1, upvote100 |-> 0],
      [id |-> 3, created_utc |-> 2, score |-> 0, num_comments |-> 1, upvote100 |-> 0],
      [id |-> 4, created_utc |-> 3, score |-> 1, num_comments |-> 1, upvote100 |-> 2] }

\* The pages of at most n posts; a page lists a post once.
Pages(n) ==
    { page \in UNION { [1..k -> PostPool] :
                          k \in 0..(IF n < MaxChildren THEN n ELSE MaxChildren) } :
        \A i, j \in DOMAIN page : i # j => page[i] # page[j] }

\* The cursors a page can carry; "" is no cursor.
Cursors == {"", "t3_next"}

\* ------------------------------------------------------ filter_by_period
FilterByPeriodStrict(posts, period_days, now) ==
    SelectSeq(posts, LAMBDA p : p.created_utc > now - period_days)

\* [p for p in posts if p.get("created_utc", 0) >= cutoff_ts], the cutoff
\* being now minus period_days.
FilterByPeriod(posts, period_days, now) ==
    SelectSeq(posts, LAMBDA p : p.created_utc >= now - period_days)

\* ------------------------------------------------------- rank_top_posts
\* round(x, 2) of a value given in 1/10000: the nearest hundredth, a tie
\* going to the even one.
Round2(e4) ==
    LET q == e4 \div 100
        r == e4 % 100
    IN  IF r > 50 \/ (r = 50 /\ q % 2 = 1) THEN q + 1 ELSE q

\* round(calculate_engagement(post), 2), in hundredths.
CalculateEngagement(post) ==
    Round2(post.score * W_SCORE * 100
           + post.num_comments * W_COMMENTS * 100
           + post.upvote100 * W_RATIO)

\* post["engagement_score"] = ...
Scored(post) == [post |-> post, engagement_score |-> CalculateEngagement(post)]

RECURSIVE InsertDescBefore(_, _)
InsertDescBefore(x, sorted) ==
    IF sorted = <<>> THEN <<x>>
    ELSE IF Head(sorted).engagement_score > x.engagement_score
         THEN <<Head(sorted)>> \o InsertDescBefore(x, Tail(sorted))
         ELSE <<x>> \o sorted

\* The place of x in a list sorted by descending score: behind every entry
\* whose score is not smaller.
RECURSIVE InsertDesc(_, _)
InsertDesc(x, sorted) ==
    IF sorted = <<>> THEN <<x>>
    ELSE IF Head(sorted).engagement_score >= x.engagement_score
         THEN <<Head(sorted)>> \o InsertDesc(x, Tail(sorted))
         ELSE <<x>> \o sorted

\* posts.sort(key=engagement_score, reverse=True): list.sort is stable, with
\* reverse=True too.
RECURSIVE SortDesc(_, _)
SortDesc(posts, sorted) ==
    IF posts = <<>> THEN sorted
    ELSE SortDesc(Tail(posts), InsertDesc(Head(posts), sorted))

\* posts[:top_n]
Take(list, n) == SubSeq(list, 1, IF Len(list) < n THEN Len(list) ELSE n)

RankTopPosts(posts, top_n) ==
    Take(SortDesc([i \in DOMAIN posts |-> Scored(posts[i])], <<>>), top_n)

\* ------------------------------------------------------------- the run
\* all_raw[sub] = posts: a dict keeps the place of a key it already has.
DictSet(dict, key, value) ==
    IF \E i \in DOMAIN dict : dict[i].key = key
    THEN [i \in DOMAIN dict |->
             IF dict[i].key = key THEN [key |-> key, value |-> value] ELSE dict[i]]
    ELSE Append(dict, [key |-> key, value |-> value])

\* The values of TARGET_SUBREDDITS a run can start with.
HarvestTargets == { <<>>, <<"a">>, <<"a", Comma, "b">> }

\* The run before main() is entered.  raw, weekly and top are raw_posts,
\* weekly_posts and top_posts of main; filtered and ranked tell that weekly
\* is the filter of raw and top the ranking of weekly.  retries counts the
\* requests of the running fetch that were answered 429, returned is the
\* cursor of the page it received last, to_rank counts the posts the
\* filter let through.
HarvestStart(target) ==
    [pc |-> "main", target |-> target, subs |-> <<>>, i |-> 0,
     all_posts |-> <<>>, after |-> "", fetched |-> 0, page |-> 0,
     raw |-> <<>>, weekly |-> <<>>, filter_now |-> 0, top |-> <<>>,
     all_raw |-> <<>>, all_top |-> <<>>, status |-> <<>>,
     filtered |-> FALSE, ranked |-> FALSE,
     retries |-> 0, returned |-> "", to_rank |-> 0,
     clock |-> StartDay, saved |-> FALSE, posts_na_semana |-> 0]

HarvestInit ==
    /\ file = EnvParams
    /\ environ = Unset
    /\ th = [t \in Threads |-> IdleThread]
    /\ served = 0
    /\ file0 = file
    /\ present = TRUE
    /\ rv = NoResolve
    /\ pv = NoPipeline
    /\ hv \in {HarvestStart(target) : target \in HarvestTargets}

\* The head of the loop over the communities: the next community with an
\* empty fetch state, or the end of the loop.
NextSub(h) ==
    IF h.i < Len(h.subs)
    THEN [h EXCEPT !.pc = "request", !.i = h.i + 1, !.all_posts = <<>>,
                   !.after = "", !.fetched = 0, !.page = 0]
    ELSE [h EXCEPT !.pc = "save"]

\* main, lines 190-193: the list of communities, and sys.exit(1) without one.
HMain ==
    /\ hv.pc = "main"
    /\ LET subs == ParseList(hv.target)
       IN  hv' = IF subs = <<>> THEN [hv EXCEPT !.pc = "exit"]
                 ELSE NextSub([hv EXCEPT !.subs = subs])
    /\ UNCHANGED <<file, environ, th, served, file0, present, rv, pv>>

\* fetch_recent_posts returned posts and its local variables are gone; how
\* is how the fetch ended.  main stores the posts and skips the community
\* that has none.
FetchReturn(h, posts, how) ==
    LET sub == h.subs[h.i]
        g   == [h EXCEPT !.raw = posts, !.filtered = FALSE, !.ranked = FALSE,
                         !.all_posts = <<>>, !.after = "", !.fetched = 0,
                         !.page = 0, !.retries = 0, !.returned = "",
                         !.all_raw = DictSet(h.all_raw, sub, posts),
                         !.status = Append(h.status, how)]
    IN  IF posts = <<>>
        THEN NextSub([g EXCEPT !.all_top = DictSet(g.all_top, sub, <<>>)])
        ELSE [g EXCEPT !.pc = "filter"]

\* The request of the loop of fetch_recent_posts is sent: page += 1.
Sent(h) == [h EXCEPT !.page = h.page + 1]

\* min(100, total_limit - fetched)
BatchSize(h) ==
    IF FETCH_LIMIT - h.fetched < PageSize THEN FETCH_LIMIT - h.fetched ELSE PageSize

\* requests.ConnectionError: the posts collected so far are returned.
HConnectionError ==
    /\ hv.pc = "request"
    /\ hv' = FetchReturn(Sent(hv), hv.all_posts, "connection_error")
    /\ UNCHANGED <<file, environ, th, served, file0, present, rv, pv>>

\* return [] in the handler of requests.Timeout.
HTimeoutReturnsNothing ==
    /\ hv.pc = "request"
    /\ hv' = FetchReturn(Sent(hv), <<>>, "timeout")
    /\ UNCHANGED <<file, environ, th, served, file0, present, rv, pv>>

\* requests.Timeout: the posts collected so far are returned.
HTimeout ==
    /\ hv.pc = "request"
    /\ hv' = FetchReturn(Sent(hv), hv.all_posts, "timeout")
    /\ UNCHANGED <<file, environ, th, served, file0, present, rv, pv>>

HNotFoundRaises(code) ==
    /\ hv.pc = "request"
    /\ hv' = [Sent(hv) EXCEPT !.pc = "crashed",
                              !.status = Append(hv.status, "unavailable")]
    /\ UNCHANGED <<file, environ, th, served, file0, present, rv, pv>>

\* Status 404 or 403: return [].
HNotFound(code) ==
    /\ hv.pc = "request"
    /\ hv' = FetchReturn(Sent(hv), <<>>,
                         IF hv.all_posts = <<>> THEN "unavailable"
                         ELSE "unavailable_later")
    /\ UNCHANGED <<file, environ, th, served, file0, present, rv, pv>>

\* Status 429: sleep, then the same request again.
HRateLimited ==
    /\ hv.pc = "request"
    /\ hv.page < MaxPages
    /\ hv' = [Sent(hv) EXCEPT !.retries = hv.retries + 1]
    /\ UNCHANGED <<file, environ, th, served, file0, present, rv, pv>>

\* Any other status but 200: the posts collected so far are returned.
HHttpError ==
    /\ hv.pc = "request"
    /\ hv' = FetchReturn(Sent(hv), hv.all_posts, "http_error")
    /\ UNCHANGED <<file, environ, th, served, file0, present, rv, pv>>

\* The loop without "if not after: break".
HPageIgnoresCursor(children, after) ==
    /\ hv.pc = "request"
    /\ LET h == [Sent(hv) EXCEPT !.returned = after]
           g == [h EXCEPT !.all_posts = h.all_posts \o children,
                          !.fetched = h.fetched + Len(children),
                          !.after = after]
       IN  hv' = IF children = <<>> THEN FetchReturn(h, h.all_posts, "ok")
                 ELSE IF g.fetched < FETCH_LIMIT THEN g
                 ELSE FetchReturn(g, g.all_posts, "ok")
    /\ UNCHANGED <<file, environ, th, served, file0, present, rv, pv>>

\* Status 200 with a listing: its posts are appended, and the loop goes on
\* while the page had posts and a cursor and the limit is not reached.
HPage(children, after) ==
    /\ hv.pc = "request"
    /\ LET h == [Sent(hv) EXCEPT !.returned = after]
           g == [h EXCEPT !.all_posts = h.all_posts \o children,
                          !.fetched = h.fetched + Len(children),
                          !.after = after]
       IN  hv' = IF children = <<>> THEN FetchReturn(h, h.all_posts, "ok")
                 ELSE IF after = "" THEN FetchReturn(g, g.all_posts, "ok")
                 ELSE IF g.fetched < FETCH_LIMIT THEN g
                 ELSE FetchReturn(g, g.all_posts, "ok")
    /\ UNCHANGED <<file, environ, th, served, file0, present, rv, pv>>

\* Status 200 with a body that is not the expected JSON: resp.json() or a
\* .get raises, nothing in fetch_recent_posts catches it, main logs it and
\* raises it again.
HMalformed ==
    /\ hv.pc = "request"
    /\ hv' = [Sent(hv) EXCEPT !.pc = "crashed",
                              !.status = Append(hv.status, "malformed")]
    /\ UNCHANGED <<file, environ, th, served, file0, present, rv, pv>>

\* main, lines 228-236: the posts of the window, at the time of the call.
HFilter ==
    /\ hv.pc = "filter"
    /\ LET weekly == FilterByPeriod(hv.raw, PERIOD_DAYS, hv.clock)
           h      == [hv EXCEPT !.weekly = weekly, !.filter_now = hv.clock,
                                !.filtered = TRUE,
                                !.to_rank = hv.to_rank + Len(weekly)]
       IN  hv' = IF weekly = <<>>
                 THEN NextSub([h EXCEPT !.all_top =
                                   DictSet(h.all_top, h.subs[h.i], <<>>)])
                 ELSE [h EXCEPT !.pc = "rank"]
    /\ UNCHANGED <<file, environ, th, served, file0, present, rv, pv>>

\* main, lines 239-240: the top posts of the community.
HRank ==
    /\ hv.pc = "rank"
    /\ LET top == RankTopPosts(hv.weekly, TOP_N)
           h   == [hv EXCEPT !.top = top, !.ranked = TRUE,
                             !.all_top = DictSet(hv.all_top, hv.subs[hv.i], top)]
       IN  hv' = NextSub(h)
    /\ UNCHANGED <<file, environ, th, served, file0, present, rv, pv>>

\* main, lines 252-259: raw_posts.json and top_posts.json are written.
HSave ==
    /\ hv.pc = "save"
    /\ hv' = [hv EXCEPT !.pc = "metrics", !.saved = TRUE]
    /\ UNCHANGED <<file, environ, th, served, file0, present, rv, pv>>

RECURSIVE SumWeekly(_, _)
SumWeekly(dict, now) ==
    IF dict = <<>> THEN 0
    ELSE Len(FilterByPeriod(Head(dict).value, PERIOD_DAYS, now))
         + SumWeekly(Tail(dict), now)

\* main, line 267: the metric posts_na_semana filters every list again.
HMetrics ==
    /\ hv.pc = "metrics"
    /\ hv' = [hv EXCEPT !.pc = "done",
                        !.posts_na_semana = SumWeekly(hv.all_raw, hv.clock)]
    /\ UNCHANGED <<file, environ, th, served, file0, present, rv, pv>>

\* Time passes while the run waits for the network.
HTick ==
    /\ hv.pc \in {"request", "filter", "rank", "save", "metrics"}
    /\ hv.clock < StartDay + MaxTicks
    /\ hv' = [hv EXCEPT !.clock = hv.clock + 1]
    /\ UNCHANGED <<file, environ, th, served, file0, present, rv, pv>>

HarvestNext ==
    \/ HMain
    \/ HConnectionError
    \/ HTimeout
    \/ \E code \in {404, 403} : HNotFound(code)
    \/ HRateLimited
    \/ HHttpError
    \/ \E after \in Cursors : \E children \in Pages(BatchSize(hv)) :
           HPage(children, after)
    \/ HMalformed
    \/ HFilter
    \/ HRank
    \/ HSave
    \/ HMetrics
    \/ HTick

HarvestSpec == HarvestInit /\ [][HarvestNext]_vars

\* ------------------------------------------------------ harvest claims
\* The value all_raw or all_top holds for the k-th community.
Entry(dict, k) ==
    { dict[e].value : e \in { e \in DOMAIN dict : dict[e].key = hv.subs[k] } }

\* C13: a community whose first page is answered 404 or 403 gets an empty
\* list without an error, and the run goes on with the next community.
C13_UnavailableIsSkipped ==
    hv.pc # "off" =>
    \A k \in DOMAIN hv.status :
        hv.status[k] = "unavailable"
        => /\ Entry(hv.all_raw, k) = {<<>>}
           /\ Entry(hv.all_top, k) = {<<>>}
           /\ \/ hv.i > k
              \/ hv.pc \in {"save", "metrics", "done"}
              \/ hv.pc = "crashed" /\ Len(hv.status) > k

C13_Witness ==
    /\ hv.pc = "done"
    /\ Len(hv.subs) = 2
    /\ hv.status = <<"unavailable", "ok">>
    /\ Entry(hv.all_raw, 2) # {<<>>}
    /\ hv.saved

\* C14: the posts handed to the ranker for a community have pairwise
\* distinct ids.
C14_RankedIdsUnique ==
    hv.pc = "rank" =>
        \A i, j \in DOMAIN hv.weekly :
            i # j => hv.weekly[i].id # hv.weekly[j].id

\* C15: the filter keeps exactly the posts created at or after now minus
\* the window, in their order; a post created exactly then is kept.
C15_WindowFilter ==
    (hv.pc # "off" /\ hv.filtered) =>
    LET inp     == hv.raw
        out     == hv.weekly
        cutoff  == hv.filter_now - PERIOD_DAYS
        Count(seq, p) == Cardinality({ i \in DOMAIN seq : seq[i] = p })
    IN  /\ \A i \in DOMAIN out : out[i].created_utc >= cutoff
        /\ \A p \in PostPool :
               Count(out, p) = IF p.created_utc >= cutoff THEN Count(inp, p) ELSE 0
        /\ \A i, j \in DOMAIN out :
               i < j => \E a, b \in DOMAIN inp :
                            a < b /\ inp[a] = out[i] /\ inp[b] = out[j]

C15_Witness ==
    /\ hv.pc = "rank"
    /\ hv.filtered
    /\ Len(hv.raw) = 3
    /\ Len(hv.weekly) = 2
    /\ \E i \in DOMAIN hv.weekly :
           hv.weekly[i].created_utc = hv.filter_now - PERIOD_DAYS
    /\ \E i \in DOMAIN hv.raw :
           hv.raw[i].created_utc < hv.filter_now - PERIOD_DAYS

\* C16: the ranking is the first topN posts of the input in descending
\* score, posts of equal score in their input order; its length is the
\* smaller of topN and the number of posts.  Place(a) is the place the a-th
\* input post has in that order: behind every post of a higher score and
\* every earlier post of the same score.
C16_StableTopN ==
    (hv.pc # "off" /\ hv.ranked) =>
    LET inp == hv.weekly
        out == hv.top
        Score(a) == CalculateEngagement(inp[a])
        Place(a) == 1 + Cardinality({ b \in DOMAIN inp : Score(b) > Score(a) })
                      + Cardinality({ b \in 1..(a - 1) : Score(b) = Score(a) })
    IN  /\ Len(out) = IF Len(inp) < TOP_N THEN Len(inp) ELSE TOP_N
        /\ \A a \in DOMAIN inp :
               Place(a) <= TOP_N
               => /\ out[Place(a)].post = inp[a]
                  /\ out[Place(a)].engagement_score = Score(a)

C16_Witness ==
    /\ hv.ranked
    /\ Len(hv.weekly) = 3
    /\ Len(hv.top) = 2
    /\ [k \in DOMAIN hv.weekly |-> hv.weekly[k].id] = <<3, 1, 4>>
    /\ [k \in DOMAIN hv.top |-> hv.top[k].post.id] = <<4, 3>>
    /\ Scored(hv.weekly[1]).engagement_score = Scored(hv.weekly[2]).engagement_score

\* The posts main holds for the community the fetch is about, after a step.
Returned == hv'.raw

\* The step ends the fetch of the current community without ending the run.
FetchEnds ==
    /\ Len(hv'.status) = Len(hv.status) + 1
    /\ hv'.pc \in {"filter", "request", "save"}
    /\ hv'.pc = "request" => hv'.i = hv.i + 1

\* C23: a request answered 429 is repeated as it was: same cursor, same
\* count of fetched posts, same posts, same page number.
C23_RetrySamePage ==
    [][HRateLimited
       => /\ hv'.pc = "request"
          /\ hv'.i = hv.i
          /\ hv'.after = hv.after
          /\ hv'.fetched = hv.fetched
          /\ hv'.all_posts = hv.all_posts
          /\ hv'.page = hv.page]_vars

\* C24: the fetch does not back off more than a capped number of times: a
\* fetch whose requests were all answered 429 is over before it has backed
\* off MaxPages times.
C24_BackoffCapped ==
    (hv.pc = "request" /\ hv.page = hv.retries) => hv.retries < MaxPages

\* C25: the first request carries no cursor and every later one the cursor
\* of the page received last; a request is sent only while fewer posts than
\* the limit were fetched and every page received had posts and a cursor,
\* so a fetch receives fewer pages than the limit before it ends.
C25_Pagination ==
    hv.pc = "request"
    => LET pages == hv.page - hv.retries
       IN  /\ hv.after = hv.returned
           /\ pages = 0 => hv.after = "" /\ hv.fetched = 0
           /\ pages > 0 => hv.after # ""
           /\ pages <= hv.fetched
           /\ hv.fetched < FETCH_LIMIT
           /\ Len(hv.all_posts) = hv.fetched

C25_Witness ==
    /\ hv.pc = "request"
    /\ hv.page = 2
    /\ hv.retries = 0
    /\ hv.fetched = 2
    /\ hv.after = "t3_next"

\* C26: a timeout or a connection failure ends the fetch of the community
\* with the posts collected so far; the run goes on.
C26_TransportSoftFail ==
    [][(HTimeout \/ HConnectionError)
       => /\ FetchEnds
          /\ Returned = hv.all_posts
          /\ hv'.all_raw = DictSet(hv.all_raw, hv.subs[hv.i], hv.all_posts)]_vars

C26_Witness ==
    /\ hv.pc = "done"
    /\ hv.saved
    /\ hv.status = <<"timeout", "ok">>
    /\ Len(hv.all_raw) = 2
    /\ Len(hv.all_raw[1].value) = 2
    /\ hv.all_raw[2].value # <<>>

\* C27: a malformed listing response is skipped: the run is not aborted by
\* it.
C27_MalformedIsSkipped ==
    (hv.pc # "off" /\ \E k \in DOMAIN hv.status : hv.status[k] = "malformed")
    => hv.pc # "crashed"

\* C28: the count of posts in the window the run reports is the number of
\* posts its filter handed on to the ranking.
C28_OneCutoff ==
    hv.pc = "done" => hv.posts_na_semana = hv.to_rank

\* C30: a page after the first that is answered with a status other than
\* 200 ends the fetch with the posts of the earlier pages.
C30_EarlierPagesKept ==
    [][(hv.pc = "request" /\ hv.all_posts # <<>>
          /\ (HHttpError \/ \E code \in {404, 403} : HNotFound(code)))
       => Returned = hv.all_posts]_vars


\* ================================================================ resolver
\* GET /api/fetch-post?url=...: fetch_reddit_post classifies the URL,
\* follows the redirect of a share link, looks the post up and checks its
\* community against the registry.
\*
\* A URL is its host prefix, its domain and the segments of its path; a
\* segment is a text.  The literal path words are one-character texts.

\* ------------------------------------------------------------------ bounds
\* Number of redirect requests one resolution can issue.
MaxHops == 2

\* -------------------------------------------------------------------- URLs
SegR == <<"r">>

SegS == <<"s">>

SegComments == <<"comments">>

\* The characters \w matches in a path segment.
UrlWordChars == WordChars \cup {"1", "2", "7", "r", "s", "t", "comments"}

\* (\w+) followed by "/" or by the end of the URL.
IsUrlWord(seg) == seg # <<>> /\ \A i \in DOMAIN seg : seg[i] \in UrlWordChars

\* (\w+) at the end of a pattern: the longest run of word characters the
\* segment starts with.
RECURSIVE WordPrefix(_)
WordPrefix(seg) ==
    IF seg # <<>> /\ Head(seg) \in UrlWordChars
    THEN <<Head(seg)>> \o WordPrefix(Tail(seg))
    ELSE <<>>

Url(prefix, domain, path) == [prefix |-> prefix, domain |-> domain, path |-> path]

\* resolve_share_url returned None.
NoUrl == Url("", "", <<>>)

\* The URLs a client can ask for and a redirect can lead to.
DirectUrl == Url("www.", "reddit.com", <<SegR, <<"A">>, SegComments, <<"1", "-">>, <<"t">>>>)

PlainDirectUrl == Url("", "reddit.com", <<SegR, <<"b">>, SegComments, <<"2">>>>)

ForeignDirectUrl == Url("", "example.com", <<SegR, <<"A">>, SegComments, <<"1">>, <<"t">>>>)

ShareUrl == Url("www.", "reddit.com", <<SegR, <<"b">>, SegS, <<"7">>>>)

ShortUrl == Url("", "redd.it", <<<<"1">>>>)

CommunityUrl == Url("old.", "reddit.com", <<SegR, <<"a">>>>)

LoginUrl == Url("www.", "reddit.com", <<<<"t">>>>)

UrlPool ==
    { DirectUrl, PlainDirectUrl, ForeignDirectUrl, ShareUrl, ShortUrl,
      CommunityUrl, LoginUrl }

\* (?:https?://)?(?:www\.|old\.)?reddit\.com, searched anywhere in the URL:
\* whatever stands before the domain, the pattern is found.
IsRedditHost(url) == url.domain = "reddit.com"

\* The path has the form .../r/<community>/comments/<id>...
DirectShaped(url) ==
    /\ Len(url.path) >= 4
    /\ url.path[1] = SegR
    /\ IsUrlWord(url.path[2])
    /\ url.path[3] = SegComments
    /\ WordPrefix(url.path[4]) # <<>>

\* The path has the form .../r/<community>/s/<shareId>...
ShareShaped(url) ==
    /\ Len(url.path) >= 4
    /\ url.path[1] = SegR
    /\ IsUrlWord(url.path[2])
    /\ url.path[3] = SegS
    /\ WordPrefix(url.path[4]) # <<>>

\* re.search(r"...reddit\.com/r/\w+/?$", url.strip())
IsSubredditOnlyUrl(url) ==
    /\ IsRedditHost(url)
    /\ Len(url.path) = 2
    /\ url.path[1] = SegR
    /\ IsUrlWord(url.path[2])

\* ------------------------------------------------------- parse_reddit_url
Parsed(type, subreddit, post_id, share_id) ==
    [type |-> type, subreddit |-> subreddit, post_id |-> post_id,
     share_id |-> share_id]

\* parse_reddit_url returned None.
NoParse == Parsed("none", <<>>, <<>>, <<>>)

\* The patterns applied with re.fullmatch: nothing may follow the id.
ParseRedditUrlFullMatch(url) ==
    IF IsRedditHost(url) /\ DirectShaped(url) /\ Len(url.path) = 4
           /\ IsUrlWord(url.path[4])
    THEN Parsed("post", url.path[2], url.path[4], <<>>)
    ELSE IF IsRedditHost(url) /\ ShareShaped(url) /\ Len(url.path) = 4
           /\ IsUrlWord(url.path[4])
    THEN Parsed("share", url.path[2], <<>>, url.path[4])
    ELSE IF url.domain = "redd.it" /\ Len(url.path) = 1 /\ IsUrlWord(url.path[1])
    THEN Parsed("short", <<>>, url.path[1], <<>>)
    ELSE NoParse

\* The three patterns in their order, each with re.search; subreddit is
\* None (the empty text) for a short link.
ParseRedditUrl(url) ==
    IF IsRedditHost(url) /\ DirectShaped(url)
    THEN Parsed("post", url.path[2], WordPrefix(url.path[4]), <<>>)
    ELSE IF IsRedditHost(url) /\ ShareShaped(url)
    THEN Parsed("share", url.path[2], <<>>, WordPrefix(url.path[4]))
    ELSE IF url.domain = "redd.it" /\ url.path # <<>>
            /\ WordPrefix(url.path[1]) # <<>>
    THEN Parsed("short", <<>>, WordPrefix(url.path[1]), <<>>)
    ELSE NoParse

\* ------------------------------------------------------ fetch_reddit_post
\* No request for the post has been built.
NoApi == [sub |-> <<>>, post_id |-> <<>>]

NoResult == [kind |-> "none", error |-> "", subreddit |-> <<>>, is_tracked |-> FALSE]

\* {"error": ...}
ErrorResult(error) == [NoResult EXCEPT !.kind = "error", !.error = error]

\* {"success": True, "post": ..., "community": {name, is_tracked, ...}}
SuccessResult(name, tracked) ==
    [NoResult EXCEPT !.kind = "success", !.subreddit = name, !.is_tracked = tracked]

\* The resolver before a request: url0 is the URL of the request, url the
\* one fetch_reddit_post was last called with, hops the answers of
\* resolve_share_url, api the post the lookup asks for, pre the file
\* get_communities loaded.
RIdle ==
    [pc |-> "idle", url0 |-> NoUrl, url |-> NoUrl, parsed |-> NoParse,
     hops |-> <<>>, api |-> NoApi, lookups |-> 0,
     has_sub |-> FALSE, subreddit_name |-> <<>>, pre |-> <<>>,
     communities |-> <<>>, result |-> NoResult]

Finish(r, result) == [r EXCEPT !.pc = "done", !.result = result]

\* post_id, sub and api_url of the lookup.
ToLookup(r, parsed) ==
    IF parsed.post_id = <<>>
    THEN Finish([r EXCEPT !.parsed = parsed], ErrorResult("no_post_id"))
    ELSE [r EXCEPT !.parsed = parsed, !.pc = "lookup",
                   !.api = [sub |-> parsed.subreddit, post_id |-> parsed.post_id]]

\* fetch_reddit_post(url) up to its first request.
FetchRedditPost(r, url) ==
    LET q      == [r EXCEPT !.url = url]
        parsed == ParseRedditUrl(url)
    IN  IF IsSubredditOnlyUrl(url) THEN Finish(q, ErrorResult("subreddit_only"))
        ELSE IF parsed = NoParse
        THEN Finish([q EXCEPT !.parsed = parsed], ErrorResult("invalid_url"))
        ELSE IF parsed.type = "share"
        THEN [q EXCEPT !.parsed = parsed, !.pc = "resolve"]
        ELSE ToLookup(q, parsed)

\* The redirect is ignored when resolve_share_url fails: the share link is
\* looked up as it was parsed.
AfterRedirectFallsThrough(r, resolved) ==
    LET re_parsed == ParseRedditUrl(resolved)
    IN  IF resolved # NoUrl
        THEN IF re_parsed.type = "post"
             THEN ToLookup(r, re_parsed)
             ELSE FetchRedditPost(r, resolved)
        ELSE ToLookup(r, r.parsed)

\* The community of the share link is kept for the lookup.
AfterRedirectKeepsCommunity(r, resolved) ==
    LET re_parsed == ParseRedditUrl(resolved)
    IN  IF resolved # NoUrl
        THEN IF re_parsed.type = "post"
             THEN ToLookup(r, [re_parsed EXCEPT !.subreddit = r.parsed.subreddit])
             ELSE FetchRedditPost(r, resolved)
        ELSE Finish(r, ErrorResult("share_unresolved"))

\* What follows resolve_share_url: the target of the redirect replaces the
\* share link when it is a post URL, and is fetched in its own right when
\* it is not.
AfterRedirect(r, resolved) ==
    LET re_parsed == ParseRedditUrl(resolved)
    IN  IF resolved # NoUrl
        THEN IF re_parsed.type = "post"
             THEN ToLookup(r, re_parsed)
             ELSE FetchRedditPost(r, resolved)
        ELSE Finish(r, ErrorResult("share_unresolved"))

\* The communities a looked-up post can belong to.
LookupNames == { <<"a">>, <<"A">>, <<"b">> }

\* The ways the lookup fails: HTTP 404, 403, another HTTP status, no
\* connection, another exception, and the two unexpected answers.
LookupErrors ==
    { "http_404", "http_403", "http_other", "url_error", "unexpected",
      "not_a_list", "bad_format" }

\* ---------------------------------------------------------------- actions
ResolveInit ==
    /\ \/ present = TRUE  /\ file \in InitialFiles
       \/ present = FALSE /\ file = <<>>
    /\ environ = LoadDotenv(file, Unset)
    /\ th = [t \in Threads |-> IdleThread]
    /\ served = 0
    /\ file0 = file
    /\ hv = NoHarvest
    /\ pv = NoPipeline
    /\ rv = RIdle

RUnchanged == UNCHANGED <<file, environ, th, served, file0, present, hv, pv>>

\* do_GET, /api/fetch-post
RRequest(url) ==
    /\ rv.pc = "idle"
    /\ rv' = FetchRedditPost([rv EXCEPT !.url0 = url], url)
    /\ RUnchanged

\* resolve_share_url answers None or the URL the redirects end at.
RResolve(resolved) ==
    /\ rv.pc = "resolve"
    /\ Len(rv.hops) < MaxHops
    /\ rv' = AfterRedirect([rv EXCEPT !.hops = Append(rv.hops, resolved)], resolved)
    /\ RUnchanged

RLookupFails(error) ==
    /\ rv.pc = "lookup"
    /\ rv' = Finish([rv EXCEPT !.lookups = rv.lookups + 1], ErrorResult(error))
    /\ RUnchanged

\* subreddit_name = post_data.get("subreddit", sub or "")
RLookupOk(has_sub, name) ==
    /\ rv.pc = "lookup"
    /\ rv' = [rv EXCEPT !.lookups = rv.lookups + 1, !.pc = "load",
                        !.has_sub = has_sub,
                        !.subreddit_name = IF has_sub THEN name ELSE rv.api.sub]
    /\ RUnchanged

\* get_communities: load_dotenv(override=True)
RLoad ==
    /\ rv.pc = "load"
    /\ environ' = LoadDotenv(file, environ)
    /\ rv' = [rv EXCEPT !.pc = "getenv", !.pre = file]
    /\ UNCHANGED <<file, th, served, file0, present, hv, pv>>

\* get_communities: os.getenv and the list; then is_tracked and the answer.
RGetenv ==
    /\ rv.pc = "getenv"
    /\ LET communities == ParseList(Getenv(environ))
           is_tracked  == IsRegistered(rv.subreddit_name, communities)
       IN  rv' = Finish([rv EXCEPT !.communities = communities],
                        SuccessResult(rv.subreddit_name, is_tracked))
    /\ RUnchanged

ResolveNext ==
    \/ \E url \in UrlPool : RRequest(url)
    \/ \E resolved \in UrlPool \cup {NoUrl} : RResolve(resolved)
    \/ \E error \in LookupErrors : RLookupFails(error)
    \/ \E has_sub \in BOOLEAN : \E name \in LookupNames : RLookupOk(has_sub, name)
    \/ RLoad
    \/ RGetenv
    \/ ExternalEdit

ResolveSpec == ResolveInit /\ [][ResolveNext]_vars

\* ----------------------------------------------------- resolver claims
\* The request has been classified.
Started == rv.pc \notin {"off", "idle"}

\* The last answer of resolve_share_url.
LastHop == rv.hops[Len(rv.hops)]

\* The lookup asks for the post the path of url names.
AsksFor(url) ==
    /\ rv.pc \in {"lookup", "load", "getenv", "done"}
    /\ rv.api = [sub |-> url.path[2], post_id |-> WordPrefix(url.path[4])]

C18_ShareResolvesAsTarget ==
    (Started /\ ParseRedditUrl(rv.url0).type = "share" /\ rv.hops # <<>>
       /\ IsRedditHost(LastHop) /\ DirectShaped(LastHop))
    => /\ AsksFor(LastHop)
       /\ rv.api = FetchRedditPost([RIdle EXCEPT !.url0 = LastHop], LastHop).api

C18_Witness ==
    /\ rv.url0 = ShareUrl
    /\ rv.hops = <<DirectUrl>>
    /\ rv.pc = "done"
    /\ rv.result.kind = "success"
    /\ rv.lookups = 1
    /\ rv.api = [sub |-> <<"A">>, post_id |-> <<"1">>]
    /\ ParseRedditUrl(ShareUrl).subreddit = <<"b">>

\* C19 as stated: when the redirect of a share link cannot be resolved, or
\* ends at a URL that is not a post URL, the resolution ends with the
\* share-link error and no lookup.
C19_ShareFailure_Original ==
    (rv.pc = "done" /\ ParseRedditUrl(rv.url0).type = "share" /\ rv.hops # <<>>
       /\ ParseRedditUrl(LastHop).type # "post")
    => /\ rv.result = ErrorResult("share_unresolved")
       /\ rv.lookups = 0

\* C19, amended: when the redirect cannot be resolved the resolution ends
\* with the share-link error and no lookup.  When it ends at a URL that is
\* not a post URL, that URL is resolved as if the client had given it: a
\* community URL and an unknown URL end with their own errors and no
\* lookup, a short link is looked up by its id, a share link is followed
\* again.  No lookup asks for the id of a share link.
C19_ShareFailure ==
    (Started /\ ParseRedditUrl(rv.url0).type = "share" /\ rv.hops # <<>>)
    => /\ LastHop = NoUrl
          => /\ rv.pc = "done"
             /\ rv.result = ErrorResult("share_unresolved")
             /\ rv.lookups = 0
             /\ rv.api = NoApi
       /\ (LastHop # NoUrl /\ ParseRedditUrl(LastHop).type # "post")
          => /\ rv.url = LastHop
             /\ IsSubredditOnlyUrl(LastHop)
                => /\ rv.pc = "done"
                   /\ rv.result = ErrorResult("subreddit_only")
                   /\ rv.lookups = 0
             /\ (~IsSubredditOnlyUrl(LastHop) /\ ParseRedditUrl(LastHop) = NoParse)
                => /\ rv.pc = "done"
                   /\ rv.result = ErrorResult("invalid_url")
                   /\ rv.lookups = 0
             /\ ParseRedditUrl(LastHop).type = "short"
                => /\ rv.pc \in {"lookup", "load", "getenv", "done"}
                   /\ rv.api = [sub |-> <<>>, post_id |-> WordPrefix(LastHop.path[1])]
             /\ ParseRedditUrl(LastHop).type = "share"
                => rv.pc = "resolve" /\ rv.api = NoApi
       /\ \A url \in {rv.url0} \cup {rv.hops[i] : i \in DOMAIN rv.hops} :
              ParseRedditUrl(url).type = "share"
              => rv.api.post_id # ParseRedditUrl(url).share_id

C19_Witness ==
    /\ rv.url0 = ShareUrl
    /\ rv.hops = <<NoUrl>>
    /\ rv.pc = "done"
    /\ rv.result = ErrorResult("share_unresolved")
    /\ rv.lookups = 0

\* C20: after a successful lookup that returned a community, is_tracked
\* tells whether that community is, letter case aside, an entry of the
\* registry the .env file holds when get_communities reads it.
C20_TrackedIsPersisted ==
    (rv.pc = "done" /\ rv.result.kind = "success" /\ rv.has_sub)
    => rv.result.is_tracked
         = (\E i \in DOMAIN Registry(rv.pre) :
                Lower(Registry(rv.pre)[i]) = Lower(rv.result.subreddit))

\* C29: a share link whose redirect leads back to itself is given up: a
\* resolution that got the link itself as the answer of every one of its
\* MaxHops redirect requests is over.
C29_SelfRedirectEnds ==
    (ParseRedditUrl(rv.url0).type = "share" /\ Len(rv.hops) = MaxHops
       /\ \A i \in DOMAIN rv.hops : rv.hops[i] = rv.url0)
    => rv.pc = "done"

\* ------------------------------------------------------ envelope claim
\* C22: every response carries either the success marker or an error
\* reason, never neither and never both.
C22_OneEnvelope ==
    \A t \in Threads :
        th[t].resp.sent
        => ((th[t].resp.success = "true") # (th[t].resp.error # Absent))

\* ================================================================ pipeline
\* do_POST, /api/run-pipeline, stage by stage: the three scripts are run
\* one after another with subprocess.run(..., timeout=120); a script that
\* ends with a status other than 0, that runs longer than the timeout or
\* that cannot be started adds a line to errors, and the run goes on with
\* the next script.  PostRunPipeline is the same handler in one step, for
\* the claims about the registry.

\* timeout=120, in seconds.
StageTimeout == 120

\* steps_names
StageNames == <<"Buscando posts do Reddit", "Formatando dados", "Gerando dashboard">>

\* The statuses a script can end with.
ExitCodes == {0, 1}

\* The run before the request: i is the stage, elapsed the seconds the
\* script of the stage has run, outcomes what happened to each stage so far.
PIdle ==
    [pc |-> "idle", i |-> 0, elapsed |-> 0, errors |-> <<>>, outcomes |-> <<>>,
     resp |-> [sent |-> FALSE, success |-> Absent, error |-> <<>>]]

PUnchanged == UNCHANGED <<file, environ, th, served, file0, present, hv, rv>>

\* The head of the loop over the scripts: the next script, or the response.
NextStage(p) ==
    IF p.i < Len(StageNames)
    THEN [p EXCEPT !.pc = "spawn", !.i = p.i + 1, !.elapsed = 0]
    ELSE [p EXCEPT !.pc = "respond"]

\* errors.append(f"{step_name}: ...")
StageError(p, kind) ==
    [p EXCEPT !.errors = Append(p.errors, [stage |-> StageNames[p.i], kind |-> kind])]

\* The outcome of the stage is known.
StageEnds(p, outcome, kind) ==
    LET q == [p EXCEPT !.outcomes = Append(p.outcomes, outcome)]
    IN  NextStage(IF kind = "" THEN q ELSE StageError(q, kind))

RunInit ==
    /\ \/ present = TRUE  /\ file \in InitialFiles
       \/ present = FALSE /\ file = <<>>
    /\ environ = LoadDotenv(file, Unset)
    /\ th = [t \in Threads |-> IdleThread]
    /\ served = 0
    /\ file0 = file
    /\ hv = NoHarvest
    /\ rv = NoResolve
    /\ pv = PIdle

PRequest ==
    /\ pv.pc = "idle"
    /\ pv' = NextStage(pv)
    /\ PUnchanged

\* subprocess.run raises another exception than TimeoutExpired: the script
\* cannot be started.
PSpawnFails ==
    /\ pv.pc = "spawn"
    /\ pv' = StageEnds(pv, "not_started", "exception")
    /\ PUnchanged

PStart ==
    /\ pv.pc = "spawn"
    /\ pv' = [pv EXCEPT !.pc = "running"]
    /\ PUnchanged

\* A second passes while the script runs.
PTick ==
    /\ pv.pc = "running"
    /\ pv.elapsed < StageTimeout
    /\ pv' = [pv EXCEPT !.elapsed = pv.elapsed + 1]
    /\ PUnchanged

\* The script ends: proc.returncode.
PExit(code) ==
    /\ pv.pc = "running"
    /\ pv' = IF code = 0 THEN StageEnds(pv, "ok", "")
             ELSE StageEnds(pv, "failed", "stderr")
    /\ PUnchanged

\* subprocess.run without a timeout: TimeoutExpired is never raised.
PNoTimeout ==
    /\ pv.pc = "running"
    /\ FALSE
    /\ PUnchanged

\* The script has run for the timeout: subprocess.run kills it and raises
\* TimeoutExpired.
PTimeoutExpired ==
    /\ pv.pc = "running"
    /\ pv.elapsed = StageTimeout
    /\ pv' = StageEnds(pv, "timed_out", "timeout")
    /\ PUnchanged

\* {"success": False, "error": ...} or {"success": True, "message": ...}
PRespond ==
    /\ pv.pc = "respond"
    /\ pv' = [pv EXCEPT !.pc = "done",
                        !.resp = IF pv.errors # <<>>
                                 THEN [sent |-> TRUE, success |-> "false", error |-> pv.errors]
                                 ELSE [sent |-> TRUE, success |-> "true", error |-> <<>>]]
    /\ PUnchanged

\* What the server does by itself, whatever the scripts do.
RunServerStep == PStart \/ PTick \/ PTimeoutExpired \/ PRespond

RunNext ==
    \/ PRequest
    \/ PSpawnFails
    \/ \E code \in ExitCodes : PExit(code)
    \/ RunServerStep

RunSpec == RunInit /\ [][RunNext]_vars

\* The server thread keeps running; a script may never end by itself.
RunFairSpec == RunSpec /\ WF_vars(RunServerStep)

\* ------------------------------------------------------- pipeline claim
\* The line errors holds for stage k, if any.
ErrorsOf(k) ==
    { pv.errors[e].kind : e \in { e \in DOMAIN pv.errors :
                                    pv.errors[e].stage = StageNames[k] } }

\* The response tells what happened to every stage: a line for each stage
\* that did not end with status 0, "timeout" for the stage that ran out
\* of time and for no other, and success when no stage has a line.
PerStageReport ==
    pv.pc = "done"
    => /\ pv.resp.sent
       /\ Len(pv.outcomes) = Len(StageNames)
       /\ \A k \in DOMAIN pv.outcomes :
              /\ pv.outcomes[k] = "ok" <=> ErrorsOf(k) = {}
              /\ pv.outcomes[k] = "timed_out" <=> ErrorsOf(k) = {"timeout"}
              /\ pv.outcomes[k] = "failed" <=> ErrorsOf(k) = {"stderr"}
              /\ pv.outcomes[k] = "not_started" <=> ErrorsOf(k) = {"exception"}
       /\ pv.resp.error = pv.errors
       /\ pv.resp.success = IF \A k \in DOMAIN pv.outcomes : pv.outcomes[k] = "ok"
                            THEN "true" ELSE "false"

\* No script runs longer than the timeout.
StageBounded == pv.pc = "running" => pv.elapsed <= StageTimeout

\* C21: every stage of POST /run is bounded by a timeout, so the request is
\* always answered; the answer tells a stage that timed out from one that
\* failed, stage by stage.
C21_RunAlwaysAnswers ==
    /\ [](PerStageReport /\ StageBounded)
    /\ (pv.pc \in {"spawn", "running", "respond"}) ~> (pv.pc = "done")

C21_Witness ==
    /\ pv.pc = "done"
    /\ pv.outcomes = <<"timed_out", "failed", "ok">>
    /\ pv.resp.success = "false"
    /\ pv.resp.error = << [stage |-> StageNames[1], kind |-> "timeout"],
                          [stage |-> StageNames[2], kind |-> "stderr"] >>
====
